---- MODULE Spec2Model ----
(***************************************************************************)
(* A model of the hotpatch linker of remill-template (src/src/example.cpp): *)
(* hotpatchRemill loads a patch module, forces its target metadata to the   *)
(* base module's, renames the base module's ISEL_ global variables that the *)
(* patch redefines, and links the patch over the base with OverrideFromSrc. *)
(*                                                                         *)
(* A module is a symbol table (name -> object) plus target metadata.  An   *)
(* object is [id, kind]: id is the identity of the llvm::GlobalValue (what *)
(* a use of it points at), kind is "gvar" (llvm::GlobalVariable) or "func" *)
(* (llvm::Function).  Names are strings, so the prefix test and the suffix *)
(* concatenation are computed on characters as the code computes them.     *)
(* Every symbol is a definition with external linkage.  The counter behind *)
(* uniquified names is advanced by name collisions of setName only; no     *)
(* property below depends on the number a uniquified name ends in.         *)
(***************************************************************************)
EXTENDS Integers, Sequences, FiniteSets, TLC

VARIABLES
  pc,          \* position of the current hotpatchRemill call
  mainpc,      \* position of main ("harness" when hotpatchRemill is driven directly)
  baseSyms,    \* the base module's symbol table: name -> [id, kind]
  baseMeta,    \* the base module's [dl, triple]
  lastUnique,  \* the base symbol table's counter for uniquified names
  uses,        \* references inside the base module: <<user id, used id>>
  patch,       \* the patch module of the current call, NoPatch when there is none
  ret,         \* the call's return value: "none" while running, "true", "false"
  err,         \* which failure: "none", "NotFound", "ParseError", "LinkError"
  out,         \* names printed as "Hotpatching: <name>" by the current call
  mainOut,     \* messages main printed
  calls,       \* number of hotpatchRemill calls started
  basePre,     \* history: baseSyms when the current call started
  usesPre,     \* history: uses when the current call started
  metaPre,     \* history: baseMeta when the current call started
  luPre,       \* history: lastUnique when the current call started
  fileSeen,    \* history: what the path held when the call looked at it
  loaded,      \* history: the patch module as parseIRFile returned it
  renamed,     \* history: the renames of the current call, in order
  merged,      \* history: the patch symbols the linker moved into the base
  linkRan      \* history: linkModules was called in the current call

vars == <<pc, mainpc, baseSyms, baseMeta, lastUnique, uses, patch, ret, err, out,
          mainOut, calls, basePre, usesPre, metaPre, luPre, fileSeen, loaded,
          renamed, merged, linkRan>>

(* ------------------------------ bounds -------------------------------- *)

\* hotpatchRemill calls on one base module
MaxCalls == 2

\* symbols in one patch file
MaxPatchSyms == 2

(* ----------------------------- constants ------------------------------ *)

Prefix == "ISEL_"

Suffix == "_original"

NoMeta == [dl |-> "", triple |-> ""]

\* the base module's target: remill::Arch::Get(context, "linux", "amd64")
Amd64Meta == [dl |-> "e-m:e-i64:64", triple |-> "x86_64-pc-linux-gnu"]

OtherMeta == [dl |-> "e-m:o-i64:64", triple |-> "arm64-apple-macosx"]

\* a patch source that sets no target, the base's target, or another one
PatchMetas == {NoMeta, Amd64Meta, OtherMeta}

NoPatch == [syms |-> <<>>, meta |-> NoMeta, live |-> FALSE]

Range(s) == {s[i] : i \in 1..Len(s)}

NamesOf(s) == {s[i].name : i \in 1..Len(s)}

Ids(syms) == {syms[n].id : n \in DOMAIN syms}

(* --------------------------- input universes -------------------------- *)

\* what a patch file may define: the selector of helpers/x86_64/RemillHotpatch.cpp
\* as a global variable (DEF_ISEL) and as a function, a selector that already
\* carries the suffix, and the semantic function (DEF_SEM)
PatchSymbolChoices ==
  { [name |-> "ISEL_CPUID", kind |-> "gvar"],
    [name |-> "ISEL_CPUID", kind |-> "func"],
    [name |-> "ISEL_CPUID_original", kind |-> "gvar"],
    [name |-> "CPUID", kind |-> "func"] }

DistinctNames(s) == \A i, j \in 1..Len(s) : i # j => s[i].name # s[j].name

PatchContents ==
  { s \in UNION { [1..n -> PatchSymbolChoices] : n \in 0..MaxPatchSyms } :
      DistinctNames(s) }

Files ==
  { [kind |-> "missing", syms |-> <<>>, meta |-> NoMeta],
    [kind |-> "garbage", syms |-> <<>>, meta |-> NoMeta] }
  \cup { [kind |-> "ir", syms |-> s, meta |-> m] : s \in PatchContents, m \in PatchMetas }

\* the base modules the model starts from: every name-unique choice of these
BaseSymbolChoices == PatchSymbolChoices

BaseTables ==
  { [n \in {c.name : c \in S} |->
       [id |-> <<0, n>>, kind |-> (CHOOSE c \in S : c.name = n).kind]] :
    S \in { T \in SUBSET BaseSymbolChoices :
              \A a, b \in T : a.name = b.name => a = b } }

\* every object of the base module refers to every other one
AllUses(syms) == { <<u, t>> \in Ids(syms) \X Ids(syms) : u # t }

(* ------------------------- the library's operations ------------------- *)

\* faulty variant: the existence check is dropped
FileExists_Dropped(f) == TRUE

\* std::filesystem::exists(hotpatchPath)
FileExists(f) == f.kind # "missing"

\* llvm::parseIRFile: a module owned by the caller, or null
ParseIRFile(f, callNo) ==
  IF f.kind = "ir"
  THEN [syms |-> [i \in 1..Len(f.syms) |->
                    [name |-> f.syms[i].name, kind |-> f.syms[i].kind,
                     id |-> <<callNo, f.syms[i].name>>]],
        meta |-> f.meta, live |-> TRUE]
  ELSE NoPatch

\* faulty variant: only the data layout is copied
Conformed_LayoutOnly(p, meta) == [p EXCEPT !.meta = [dl |-> meta.dl, triple |-> p.meta.triple]]

\* patchModule->setDataLayout(...); patchModule->setTargetTriple(...)
Conformed(p, meta) == [p EXCEPT !.meta = [dl |-> meta.dl, triple |-> meta.triple]]

\* faulty variant: the loop runs over functions too
Globals_AllSymbols(p) == p.syms

\* patchModule->globals(): the global variables, in module order
Globals(p) == SelectSeq(p.syms, LAMBDA s : s.kind = "gvar")

\* globalName.rfind("ISEL_", 0) == 0
IsSelectorName(n) == Len(n) >= Len(Prefix) /\ SubSeq(n, 1, Len(Prefix)) = Prefix

\* faulty variant: the lookup is module.getFunction(globalName)
HasGlobalVariable_Function(syms, n) == n \in DOMAIN syms /\ syms[n].kind = "func"

\* module.getGlobalVariable(globalName) != nullptr
HasGlobalVariable(syms, n) == n \in DOMAIN syms /\ syms[n].kind = "gvar"

\* faulty variant: another suffix
OriginalName_Backup(n) == n \o "_backup"

\* globalName + "_original"
OriginalName(n) == n \o Suffix

\* faulty variant: a taken name is taken over
UniqueName_TakeOver(syms, n, lu) == [name |-> n, lu |-> lu]

\* ValueSymbolTable::makeUniqueName: name.<++LastUnique> until it is free
RECURSIVE UniqueName(_, _, _)
UniqueName(syms, n, lu) ==
  LET cand == n \o "." \o ToString(lu + 1)
  IN IF cand \in DOMAIN syms THEN UniqueName(syms, n, lu + 1)
     ELSE [name |-> cand, lu |-> lu + 1]

\* faulty variant: the symbol is erased and a new one created under the new name
SetName_Recreate(syms, old, wanted, lu) ==
  LET pick == IF wanted \in DOMAIN syms THEN UniqueName(syms, wanted, lu)
              ELSE [name |-> wanted, lu |-> lu]
  IN [syms |-> [m \in (DOMAIN syms \ {old}) \cup {pick.name} |->
                  IF m = pick.name
                  THEN [id |-> <<-1, pick.name>>, kind |-> syms[old].kind]
                  ELSE syms[m]],
      name |-> pick.name,
      lu |-> pick.lu]

\* Value::setName on the object named old: it keeps its identity, and takes
\* the wanted name or, when that is taken, a uniquified one
SetName(syms, old, wanted, lu) ==
  LET pick == IF wanted \in DOMAIN syms THEN UniqueName(syms, wanted, lu)
              ELSE [name |-> wanted, lu |-> lu]
  IN [syms |-> [m \in (DOMAIN syms \ {old}) \cup {pick.name} |->
                  IF m = pick.name THEN syms[old] ELSE syms[m]],
      name |-> pick.name,
      lu |-> pick.lu]

\* the loop of lines 62-73 from index i on; st is [syms, lu, out, renamed]
RECURSIVE ResolveFrom(_, _, _)
ResolveFrom(gs, i, st) ==
  IF i > Len(gs) THEN st
  ELSE LET globalName == gs[i].name
       IN IF IsSelectorName(globalName) /\ HasGlobalVariable(st.syms, globalName)
          THEN LET r == SetName(st.syms, globalName, OriginalName(globalName), st.lu)
               IN ResolveFrom(gs, i + 1,
                    [syms |-> r.syms, lu |-> r.lu,
                     out |-> Append(st.out, globalName),
                     renamed |-> Append(st.renamed,
                                   [id |-> st.syms[globalName].id,
                                    from |-> globalName, to |-> r.name])])
          ELSE ResolveFrom(gs, i + 1, st)

\* faulty variant: without OverrideFromSrc a base definition keeps its name
LinkModules_NoOverride(syms, us, M) ==
  LET fresh == {s \in M : s.name \notin DOMAIN syms}
  IN [syms |-> [n \in DOMAIN syms \cup {s.name : s \in fresh} |->
                  IF n \in DOMAIN syms THEN syms[n]
                  ELSE LET s == CHOOSE x \in fresh : x.name = n
                       IN [id |-> s.id, kind |-> s.kind]],
      uses |-> us]

\* llvm::Linker::linkModules with OverrideFromSrc, for the set M of patch
\* symbols it moves: each takes its name in the base; a base object of that
\* name has its uses redirected to the new object and is erased
LinkModules(syms, us, M) ==
  LET names == {s.name : s \in M}
      gone == {syms[n].id : n \in names \cap DOMAIN syms}
      new(n) == CHOOSE s \in M : s.name = n
      repl(t) == IF t \in gone
                 THEN new(CHOOSE n \in DOMAIN syms : syms[n].id = t).id
                 ELSE t
  IN [syms |-> [n \in DOMAIN syms \cup names |->
                  IF n \in names THEN [id |-> new(n).id, kind |-> new(n).kind]
                  ELSE syms[n]],
      uses |-> { <<e[1], repl(e[2])>> : e \in {x \in us : x[1] \notin gone} }]

\* faulty variant: the link's error is ignored
LinkResult_Ignored(failed) == "true"

\* lines 77-83: the value returned after the link
LinkResult(failed) == IF failed THEN "false" ELSE "true"

(* ------------------------------- Init --------------------------------- *)

InitCommon ==
  /\ pc = "Idle"
  /\ baseSyms \in BaseTables
  /\ baseMeta = Amd64Meta
  /\ lastUnique = 0
  /\ uses = AllUses(baseSyms)
  /\ patch = NoPatch
  /\ ret = "none"
  /\ err = "none"
  /\ out = <<>>
  /\ mainOut = <<>>
  /\ calls = 0
  /\ basePre = baseSyms
  /\ usesPre = uses
  /\ metaPre = baseMeta
  /\ luPre = 0
  /\ fileSeen = "none"
  /\ loaded = NoPatch
  /\ renamed = <<>>
  /\ merged = {}
  /\ linkRan = FALSE

Init == InitCommon /\ mainpc = "harness"

(* --------------------------- hotpatchRemill --------------------------- *)

\* entry of hotpatchRemill(module, hotpatchPath)
Enter ==
  /\ pc' = "Loading"
  /\ calls' = calls + 1
  /\ ret' = "none"
  /\ err' = "none"
  /\ out' = <<>>
  /\ patch' = NoPatch
  /\ basePre' = baseSyms
  /\ usesPre' = uses
  /\ metaPre' = baseMeta
  /\ luPre' = lastUnique
  /\ fileSeen' = "none"
  /\ loaded' = NoPatch
  /\ renamed' = <<>>
  /\ merged' = {}
  /\ linkRan' = FALSE
  /\ UNCHANGED <<baseSyms, baseMeta, lastUnique, uses>>

\* a caller that calls hotpatchRemill again and again on the same module
Call ==
  /\ mainpc = "harness"
  /\ pc \in {"Idle", "Done", "Failed"}
  /\ calls < MaxCalls
  /\ Enter
  /\ UNCHANGED <<mainpc, mainOut>>

\* lines 42-54: the existence check and the parse
Load ==
  /\ pc = "Loading"
  /\ \E f \in Files :
       /\ fileSeen' = f.kind
       /\ IF ~FileExists(f)
          THEN /\ pc' = "Failed" /\ ret' = "false" /\ err' = "NotFound"
               /\ UNCHANGED <<patch, loaded>>
          ELSE LET p == ParseIRFile(f, calls)
               IN IF ~p.live
                  THEN /\ pc' = "Failed" /\ ret' = "false" /\ err' = "ParseError"
                       /\ UNCHANGED <<patch, loaded>>
                  ELSE /\ pc' = "Conforming"
                       /\ patch' = p
                       /\ loaded' = p
                       /\ UNCHANGED <<ret, err>>
  /\ UNCHANGED <<mainpc, baseSyms, baseMeta, lastUnique, uses, out, mainOut, calls,
                 basePre, usesPre, metaPre, luPre, renamed, merged, linkRan>>

\* lines 56-58
Conform ==
  /\ pc = "Conforming"
  /\ patch' = Conformed(patch, baseMeta)
  /\ pc' = "Resolving"
  /\ UNCHANGED <<mainpc, baseSyms, baseMeta, lastUnique, uses, ret, err, out, mainOut,
                 calls, basePre, usesPre, metaPre, luPre, fileSeen, loaded, renamed,
                 merged, linkRan>>

\* lines 60-73
Resolve ==
  /\ pc = "Resolving"
  /\ LET st == ResolveFrom(Globals(patch), 1,
                 [syms |-> baseSyms, lu |-> lastUnique, out |-> out,
                  renamed |-> renamed])
     IN /\ baseSyms' = st.syms
        /\ lastUnique' = st.lu
        /\ out' = st.out
        /\ renamed' = st.renamed
  /\ pc' = "Linking"
  /\ UNCHANGED <<mainpc, baseMeta, uses, patch, ret, err, mainOut, calls, basePre,
                 usesPre, metaPre, luPre, fileSeen, loaded, merged, linkRan>>

\* lines 75-83: the link succeeds and moves every patch symbol, or fails
\* having moved some of them; the patch module is consumed either way
Link ==
  /\ pc = "Linking"
  /\ \E failed \in BOOLEAN, M \in SUBSET Range(patch.syms) :
       /\ ~failed => M = Range(patch.syms)
       /\ LET r == LinkModules(baseSyms, uses, M)
          IN /\ baseSyms' = r.syms
             /\ uses' = r.uses
       /\ merged' = M
       /\ ret' = LinkResult(failed)
       /\ pc' = IF LinkResult(failed) = "true" THEN "Done" ELSE "Failed"
       /\ err' = IF failed THEN "LinkError" ELSE "none"
  /\ linkRan' = TRUE
  /\ patch' = NoPatch
  /\ UNCHANGED <<mainpc, baseMeta, lastUnique, out, mainOut, calls, basePre, usesPre,
                 metaPre, luPre, fileSeen, loaded, renamed>>

Next == Call \/ Load \/ Conform \/ Resolve \/ Link

Spec == Init /\ [][Next]_vars

(* -------------------------------- main -------------------------------- *)

MainInit == InitCommon /\ mainpc = "start"

HotpatchUnchanged ==
  UNCHANGED <<pc, baseSyms, baseMeta, lastUnique, uses, patch, ret, err, out, calls,
              basePre, usesPre, metaPre, luPre, fileSeen, loaded, renamed, merged,
              linkRan>>

\* lines 89-100: the architecture and its semantics module, or EXIT_FAILURE
MainLoadSemantics ==
  /\ mainpc = "start"
  /\ \E ok \in BOOLEAN :
       /\ mainpc' = IF ok THEN "locate" ELSE "exit_failure"
       /\ mainOut' = IF ok THEN mainOut ELSE Append(mainOut, "Failed to load")
  /\ HotpatchUnchanged

\* lines 106-119: main's own existence check, then the call
MainLocate ==
  /\ mainpc = "locate"
  /\ \E exists \in BOOLEAN :
       IF exists
       THEN /\ mainOut' = Append(mainOut, "Applying hotpatch")
            /\ mainpc' = "hotpatching"
            /\ Enter
       ELSE /\ mainOut' = Append(mainOut, "No hotpatch file found")
            /\ mainpc' = "lifting"
            /\ HotpatchUnchanged

\* faulty variant: a failed hotpatch ends the program
AfterHotpatch_Fatal(r) == IF r = "false" THEN "exit_failure" ELSE "lifting"

\* where main goes when hotpatchRemill has returned r (lines 113-115, 121)
AfterHotpatch(r) == "lifting"

\* lines 113-115: the return value decides only whether a warning is printed
MainAfterHotpatch ==
  /\ mainpc = "hotpatching"
  /\ pc \in {"Done", "Failed"}
  /\ mainOut' = IF ret = "false" THEN Append(mainOut, "Warning: Failed to apply hotpatch")
                ELSE mainOut
  /\ mainpc' = AfterHotpatch(ret)
  /\ HotpatchUnchanged

\* arch->DefineLiftedFunction(name, semantics.get()): a new function of the module
DefineLiftedFunction(syms, name) ==
  [n \in DOMAIN syms \cup {name} |->
     IF n = name THEN [id |-> <<0, name>>, kind |-> "func"] ELSE syms[n]]

\* lines 121-156: the intrinsic table and the first lifted instruction
MainLiftMov ==
  /\ mainpc = "lifting"
  /\ \E ok \in BOOLEAN :
       IF ok
       THEN /\ baseSyms' = DefineLiftedFunction(baseSyms, "lifted_mov")
            /\ mainpc' = "lifting_cpuid"
            /\ UNCHANGED mainOut
       ELSE /\ mainpc' = "exit_failure"
            /\ mainOut' = Append(mainOut, "Failed to lift")
            /\ UNCHANGED baseSyms
  /\ UNCHANGED <<pc, baseMeta, lastUnique, uses, patch, ret, err, out, calls,
                 basePre, usesPre, metaPre, luPre, fileSeen, loaded, renamed, merged,
                 linkRan>>

\* lines 158-193: the second lifted instruction and the exit status
MainLiftCpuid ==
  /\ mainpc = "lifting_cpuid"
  /\ \E ok \in BOOLEAN :
       IF ok
       THEN /\ baseSyms' = DefineLiftedFunction(baseSyms, "lifted_cpuid")
            /\ mainpc' = "exit_success"
            /\ UNCHANGED mainOut
       ELSE /\ mainpc' = "exit_failure"
            /\ mainOut' = Append(mainOut, "Failed to lift")
            /\ UNCHANGED baseSyms
  /\ UNCHANGED <<pc, baseMeta, lastUnique, uses, patch, ret, err, out, calls,
                 basePre, usesPre, metaPre, luPre, fileSeen, loaded, renamed, merged,
                 linkRan>>

MainNext ==
  \/ MainLoadSemantics \/ MainLocate
  \/ Load \/ Conform \/ Resolve \/ Link
  \/ MainAfterHotpatch \/ MainLiftMov \/ MainLiftCpuid

MainSpec == MainInit /\ [][MainNext]_vars

(* ------------------------ vocabulary of the claims -------------------- *)

\* a selector name, spelled out: it starts with the letters I S E L _
Sel(n) == Len(n) >= Len("ISEL_") /\ SubSeq(n, 1, Len("ISEL_")) = "ISEL_"

\* N + "_original", spelled out
Orig(n) == n \o "_original"

\* wanted.<k> for a k the counter has handed out
Uniquified(n, wanted) ==
  \E k \in 1..lastUnique : n = wanted \o "." \o ToString(k)

LoadedSyms == Range(loaded.syms)

LoadedNames == NamesOf(loaded.syms)

MergedNames == {s.name : s \in merged}

RenamedIds == {renamed[i].id : i \in 1..Len(renamed)}

\* the names under which the base module holds the object id
NamesHolding(id) == {n \in DOMAIN baseSyms : baseSyms[n].id = id}

\* the last rename of the object id in the current call
LastRename(id) ==
  renamed[CHOOSE i \in 1..Len(renamed) :
            /\ renamed[i].id = id
            /\ \A j \in 1..Len(renamed) : renamed[j].id = id => j <= i]

\* both modules hold a global variable named N = s.name, N is a selector name,
\* and neither module holds anything under N + "_original"
CleanSelectorPair(s) ==
  /\ Sel(s.name)
  /\ s.kind = "gvar"
  /\ s.name \in DOMAIN basePre
  /\ basePre[s.name].kind = "gvar"
  /\ Orig(s.name) \notin DOMAIN basePre
  /\ Orig(s.name) \notin LoadedNames

(* -------------------------------- C1 ---------------------------------- *)

\* C1 as stated: after a successful call, for every selector name N present in
\* both modules before the call, N resolves to the patch's definition and
\* N_original to the definition the base held under N.
C1_OverridePrecedence_AsStated ==
  pc = "Done" =>
    \A s \in LoadedSyms :
      (Sel(s.name) /\ s.name \in DOMAIN basePre) =>
        /\ s.name \in DOMAIN baseSyms
        /\ baseSyms[s.name].id = s.id
        /\ Orig(s.name) \in DOMAIN baseSyms
        /\ baseSyms[Orig(s.name)].id = basePre[s.name].id

\* C1 amended: the same, for selector names N that are global variables in both
\* modules and for which neither module holds a symbol named N_original before
\* the call.
C1_OverridePrecedence ==
  pc = "Done" =>
    \A s \in LoadedSyms :
      CleanSelectorPair(s) =>
        /\ s.name \in DOMAIN baseSyms
        /\ baseSyms[s.name].id = s.id
        /\ Orig(s.name) \in DOMAIN baseSyms
        /\ baseSyms[Orig(s.name)].id = basePre[s.name].id

C1_Witness ==
  /\ pc = "Done"
  /\ \E s \in LoadedSyms : CleanSelectorPair(s) /\ s.name = "ISEL_CPUID"

(* -------------------------------- C2 ---------------------------------- *)

\* C2: when the patch file is missing or is not valid IR, the call fails with
\* NotFound resp. ParseError and the base module is exactly as before the
\* call: no rename, no notice, no link.
C2_LoaderFailureLeavesBase ==
  fileSeen \in {"missing", "garbage"} =>
    /\ pc = "Failed"
    /\ ret = "false"
    /\ err = (IF fileSeen = "missing" THEN "NotFound" ELSE "ParseError")
    /\ baseSyms = basePre
    /\ baseMeta = metaPre
    /\ uses = usesPre
    /\ lastUnique = luPre
    /\ renamed = <<>>
    /\ out = <<>>
    /\ ~linkRan
    /\ ~patch.live

C2_Witness ==
  /\ pc = "Failed"
  /\ err = "ParseError"
  /\ "ISEL_CPUID" \in DOMAIN baseSyms

(* -------------------------------- C3 ---------------------------------- *)

\* C3 as stated: after a LinkError every symbol the resolver renamed from N is
\* under N_original.
C3_PartialState_AsStated ==
  (pc = "Failed" /\ err = "LinkError") =>
    \A i \in 1..Len(renamed) :
      /\ Orig(renamed[i].from) \in DOMAIN baseSyms
      /\ baseSyms[Orig(renamed[i].from)].id = renamed[i].id

\* C3 amended: after a LinkError the call has returned failure and no rename is
\* undone: every base global variable the patch's selector globals name was
\* renamed, no renamed symbol is back under N, and each is still under the name
\* the resolver left it with (N_original, or the uniquified N_original.<k> when
\* that name was taken), unless the failed link had already moved a patch
\* symbol of that very name over it.
C3_PartialState ==
  (pc = "Failed" /\ err = "LinkError") =>
    /\ ret = "false"
    /\ \A s \in LoadedSyms :
         (Sel(s.name) /\ s.kind = "gvar" /\ s.name \in DOMAIN basePre
            /\ basePre[s.name].kind = "gvar") =>
           basePre[s.name].id \in RenamedIds
    /\ \A i \in 1..Len(renamed) :
         LET e == renamed[i]
             final == LastRename(e.id).to
         IN /\ e.from \notin NamesHolding(e.id)
            /\ e.to = Orig(e.from) \/ Uniquified(e.to, Orig(e.from))
            /\ IF final \in MergedNames
               THEN NamesHolding(e.id) = {}
               ELSE NamesHolding(e.id) = {final}

C3_Witness ==
  /\ pc = "Failed"
  /\ err = "LinkError"
  /\ renamed # <<>>
  /\ merged = {}

(* -------------------------------- C4 ---------------------------------- *)

C5_RepeatedCalls_AsStated ==
  pc = "Done" =>
    \A s \in LoadedSyms :
      Sel(s.name) =>
        /\ s.name \in DOMAIN baseSyms
        /\ baseSyms[s.name].id = s.id
        /\ s.name \in DOMAIN basePre =>
             NamesHolding(basePre[s.name].id) = {Orig(s.name)}

\* C5 amended: after every successful call of a sequence of calls, every
\* selector symbol of that call's patch is under its name N.  When N is a
\* global variable in both modules and the patch holds nothing under
\* N_original, the symbol that held N just before the call is under exactly
\* one name: N_original when the base held no N_original, otherwise the
\* uniquified N_original.<k>, the earlier holder of N_original staying where
\* it was.  When either of the two is a function the previous holder of N is
\* replaced and is under no name.
C5_RepeatedCalls ==
  pc = "Done" =>
    \A s \in LoadedSyms :
      Sel(s.name) =>
        /\ s.name \in DOMAIN baseSyms
        /\ baseSyms[s.name].id = s.id
        /\ (s.name \in DOMAIN basePre /\ Orig(s.name) \notin LoadedNames) =>
             LET old == basePre[s.name].id
             IN IF s.kind = "gvar" /\ basePre[s.name].kind = "gvar"
                THEN IF Orig(s.name) \notin DOMAIN basePre
                     THEN NamesHolding(old) = {Orig(s.name)}
                     ELSE /\ \E n \in DOMAIN baseSyms :
                               /\ Uniquified(n, Orig(s.name))
                               /\ NamesHolding(old) = {n}
                          /\ baseSyms[Orig(s.name)] = basePre[Orig(s.name)]
                ELSE NamesHolding(old) = {}

\* a second successful patch of a selector the first call had patched
C5_Witness ==
  /\ pc = "Done"
  /\ calls > 1
  /\ \E s \in LoadedSyms :
       /\ s.name = "ISEL_CPUID" /\ s.kind = "gvar"
       /\ "ISEL_CPUID" \in DOMAIN basePre
       /\ basePre["ISEL_CPUID"] = [id |-> <<1, "ISEL_CPUID">>, kind |-> "gvar"]
       /\ Orig(s.name) \in DOMAIN basePre
       /\ Orig(s.name) \notin LoadedNames

(* -------------------------------- C6 ---------------------------------- *)

\* C6: from the end of the conformance step until the linker has run, the
\* patch module's data layout and target triple are the base module's, which
\* the call never changes; the link step is reached only in such a state.
C6_ConformanceForcing ==
  /\ baseMeta = metaPre
  /\ pc \in {"Resolving", "Linking"} =>
       /\ patch.live
       /\ patch.meta.dl = baseMeta.dl
       /\ patch.meta.triple = baseMeta.triple
       /\ patch.syms = loaded.syms

C6_Witness ==
  /\ pc = "Linking"
  /\ loaded.meta = NoMeta
  /\ patch.meta = Amd64Meta

(* -------------------------------- C7 ---------------------------------- *)

\* the references of the base module, before the call, to a renamed symbol
UsesOfRenamed == {e \in usesPre : e[2] \in RenamedIds}

\* C7 as stated: once the resolver has renamed a symbol, every reference to it
\* held by a part of the base module that is still there is still a reference
\* to that symbol, which is still in the module, after the rename and after
\* the link.
C7_ReferencesSurvive_AsStated ==
  pc \in {"Linking", "Done"} =>
    \A e \in UsesOfRenamed :
      NamesHolding(e[1]) # {} =>
        /\ e \in uses
        /\ NamesHolding(e[2]) # {}

\* C7 amended: after the rename every such reference is intact and the renamed
\* symbol is in the module under its new name alone.  After the link the same
\* holds of every reference whose holder the link did not replace, provided
\* the patch holds no symbol under the renamed symbol's new name; when it does,
\* the link replaces the renamed symbol too, and no reference to it is left.
C7_ReferencesSurvive ==
  /\ pc = "Linking" =>
       \A e \in UsesOfRenamed :
         /\ e \in uses
         /\ NamesHolding(e[2]) = {LastRename(e[2]).to}
  /\ pc \in {"Done", "Failed"} /\ linkRan =>
       \A e \in UsesOfRenamed :
         IF LastRename(e[2]).to \in MergedNames
         THEN /\ NamesHolding(e[2]) = {}
              /\ \A x \in uses : x[2] # e[2]
         ELSE /\ NamesHolding(e[2]) = {LastRename(e[2]).to}
              /\ NamesHolding(e[1]) # {} => e \in uses

C7_Witness ==
  /\ pc = "Done"
  /\ \E e \in UsesOfRenamed :
       /\ e \in uses
       /\ NamesHolding(e[1]) = {"CPUID"}
       /\ NamesHolding(e[2]) = {"ISEL_CPUID_original"}

(* -------------------------------- C8 ---------------------------------- *)

Warning == "Warning: Failed to apply hotpatch"

\* C8 as stated: when the hotpatch has failed, main has printed the warning and
\* starts lifting with the base module's symbol table as it was loaded.
C8_NonFatalFailure_AsStated ==
  (mainpc = "lifting" /\ ret = "false") =>
    /\ mainOut[Len(mainOut)] = Warning
    /\ baseSyms = basePre

\* C8 amended: when the hotpatch has failed, main does not exit: it prints the
\* warning and starts lifting with the base module as the failed call left it.
\* After NotFound or ParseError that is the module as loaded; after LinkError
\* it is the loaded module with the resolver's renames in place and with the
\* patch symbols the failed link had moved, every other symbol unchanged.
C8_NonFatalFailure ==
  [][ (mainpc = "hotpatching" /\ mainpc' # mainpc) =>
        /\ mainpc' = "lifting"
        /\ pc \in {"Done", "Failed"}
        /\ baseSyms' = baseSyms /\ uses' = uses /\ baseMeta' = metaPre
        /\ mainOut' = (IF ret = "false" THEN Append(mainOut, Warning) ELSE mainOut)
        /\ (ret = "false" /\ err \in {"NotFound", "ParseError"}) =>
             baseSyms = basePre /\ uses = usesPre
        /\ (ret = "false" /\ err = "LinkError") =>
             /\ \A n \in DOMAIN basePre :
                  (basePre[n].id \notin RenamedIds /\ n \notin MergedNames) =>
                    n \in DOMAIN baseSyms /\ baseSyms[n] = basePre[n]
             /\ \A i \in 1..Len(renamed) :
                  renamed[i].from \notin NamesHolding(renamed[i].id)
             /\ \A s \in merged : baseSyms[s.name].id = s.id
    ]_vars

C8_Witness ==
  /\ mainpc = "lifting"
  /\ ret = "false"
  /\ err = "LinkError"
  /\ mainOut[Len(mainOut)] = Warning
  /\ "ISEL_CPUID" \notin DOMAIN baseSyms
  /\ "ISEL_CPUID" \in DOMAIN basePre

(* -------------------------------- C9 ---------------------------------- *)

HolderBefore(i, n) ==
  LET later == {j \in 1..(i - 1) : renamed[j].to = n}
      moved == {j \in 1..(i - 1) : renamed[j].from = n}
  IN IF later # {} THEN renamed[CHOOSE j \in later : TRUE].id
     ELSE IF n \in DOMAIN basePre /\ moved = {} THEN basePre[n].id
     ELSE <<>>

C9_WitnessNew ==
  /\ pc = "Linking"
  /\ renamed = <<>>
  /\ \E s \in LoadedSyms : Sel(s.name) /\ s.kind = "gvar" /\ s.name \notin DOMAIN basePre

(* -------------------------------- C10 --------------------------------- *)

StepPairs ==
  { <<"Idle", "Loading">>, <<"Done", "Loading">>, <<"Failed", "Loading">>,
    <<"Loading", "Conforming">>, <<"Loading", "Failed">>,
    <<"Conforming", "Resolving">>, <<"Resolving", "Linking">>,
    <<"Linking", "Done">>, <<"Linking", "Failed">> }

\* C10: the steps of a call come only in the order Loading, Conforming,
\* Resolving, Linking; the patch is conformed, the base renamed and the link
\* run only in their own step; a failure ends the call with false and an error
\* and nothing is done after it; success ends it with true; a running call has
\* returned nothing.
C10_StepOrder ==
  [][ /\ pc' # pc => <<pc, pc'>> \in StepPairs
      /\ patch'.meta # patch.meta => pc \in {"Loading", "Conforming", "Linking"}
      /\ (baseSyms' # baseSyms \/ (renamed' # renamed /\ renamed' # <<>>)) =>
           pc \in {"Resolving", "Linking"}
      /\ uses' # uses => pc = "Linking"
      /\ linkRan' /\ ~linkRan => pc = "Linking"
      /\ pc' = "Failed" =>
           /\ ret' = "false"
           /\ err' = (IF pc = "Failed" THEN err
                      ELSE IF pc = "Linking" THEN "LinkError"
                      ELSE IF fileSeen' = "missing" THEN "NotFound" ELSE "ParseError")
      /\ pc' = "Done" => ret' = "true" /\ err' = "none"
      /\ pc' \notin {"Done", "Failed"} => ret' = "none" /\ err' = "none"
      /\ (pc \in {"Done", "Failed"} /\ pc' = pc) =>
           UNCHANGED <<baseSyms, baseMeta, uses, patch, ret, err, out, renamed,
                       merged, linkRan>>
    ]_vars

C10_Witness ==
  /\ pc = "Failed"
  /\ err = "LinkError"
  /\ calls > 1
  /\ merged # {}

====
